---- MODULE Spec2Model ----
(***************************************************************************)
(* Model of the matching core of guidesignal-site:                         *)
(*   - the ScoringEngine  (src/foundational_model.py, main and helpers)    *)
(*   - the WeightLearner  (src/learn_weights.py, main and helpers)         *)
(* Numbers are fixed point: subscores in 1/10000, weights in 1/100 (or as  *)
(* numerator over a common denominator), scores in 1/1000000.  A float NaN *)
(* is the value NaN.  Texts are sequences of one-character strings.        *)
(***************************************************************************)
EXTENDS Integers, Sequences, FiniteSets, TLC

\* ------------------------------------------------------------------ bounds
NumApps == 2
NumJobs == 2
MaxRuns == 2
MaxEvents == 21
MaxBatch == 7

\* ------------------------------------------------------- program constants
MIN_EVENTS == 20
MIN_POSITIVES == 2
W_FAST == 35
W_INTERVIEW == 25
W_REQ == 30
W_SEM == 5
W_PAY == 5
W_LOAD == 5
FUZZY_THRESHOLD == 6000

NaN == -999999999
ONE == 10000

\* ------------------------------------------------------------ text helpers
Lower(c) == CASE c = "A" -> "a" [] c = "B" -> "b" [] c = "C" -> "c" [] OTHER -> c

RECURSIVE LowerStr(_)
LowerStr(s) == IF s = <<>> THEN <<>> ELSE <<Lower(Head(s))>> \o LowerStr(Tail(s))

RECURSIVE LStrip(_)
LStrip(s) == IF s # <<>> /\ Head(s) = " " THEN LStrip(Tail(s)) ELSE s

RECURSIVE RStrip(_)
RStrip(s) == IF s # <<>> /\ s[Len(s)] = " " THEN RStrip(SubSeq(s, 1, Len(s) - 1)) ELSE s

Strip(s) == RStrip(LStrip(s))

\* str.split(";"): the pieces between separators, empty pieces included
RECURSIVE SplitSemi(_, _)
SplitSemi(s, cur) ==
    IF s = <<>> THEN <<cur>>
    ELSE IF Head(s) = ";" THEN <<cur>> \o SplitSemi(Tail(s), <<>>)
    ELSE SplitSemi(Tail(s), Append(cur, Head(s)))

\* str.replace(";", " ")
RECURSIVE ReplaceSemi(_)
ReplaceSemi(s) ==
    IF s = <<>> THEN <<>>
    ELSE <<IF Head(s) = ";" THEN " " ELSE Head(s)>> \o ReplaceSemi(Tail(s))

\* " ".join(parts)
RECURSIVE JoinSpace(_)
JoinSpace(parts) ==
    IF parts = <<>> THEN <<>>
    ELSE IF Len(parts) = 1 THEN parts[1]
    ELSE parts[1] \o <<" ">> \o JoinSpace(Tail(parts))

\* m in at
IsSubstr(m, at) ==
    \E i \in 0..(Len(at) - Len(m)) : SubSeq(at, i + 1, i + Len(m)) = m

\* --------------------------------------------------------------- csv cells
NaNCell == [t |-> "nan"]
Str(s) == [t |-> "str", s |-> s]
Num(v) == [t |-> "num", v |-> v]

IsStr(x) == x.t = "str"

_norm_text(x) == LowerStr(Strip(x))

RECURSIVE StripLowerAll(_)
StripLowerAll(parts) ==
    IF parts = <<>> THEN <<>>
    ELSE (IF Strip(Head(parts)) # <<>> THEN <<LowerStr(Strip(Head(parts)))>> ELSE <<>>)
         \o StripLowerAll(Tail(parts))

_list_from_field(x) ==
    IF x.t = "nan" THEN <<>>
    ELSE IF x.t = "str" /\ Strip(x.s) = <<>> THEN <<>>
    ELSE StripLowerAll(SplitSemi(x.s, <<>>))

\* str(cell): a missing cell prints as "nan"
StrOf(x) == IF x.t = "str" THEN x.s ELSE <<"n", "a", "n">>

\* truth value of a cell as Python sees it (a float NaN is truthy)
Truthy(x) ==
    CASE x.t = "str" -> x.s # <<>>
      [] x.t = "num" -> x.v # 0
      [] OTHER -> TRUE

\* float(cell): raises on a non-numeric string, NaN on a missing cell
FloatOk(x) == x.t # "str"
FloatOf(x) == IF x.t = "num" THEN x.v ELSE NaN

\* Python's max(a, b) / min(a, b) keep the first argument when the
\* comparison with a NaN second argument is false
PyMax(a, b) == IF b # NaN /\ a # NaN /\ b > a THEN b ELSE a
PyMin(a, b) == IF b # NaN /\ a # NaN /\ b < a THEN b ELSE a

\* ---------------------------------------------------------- signal scorers
ExpTable == <<10000, 9200, 8465, 7788, 7165, 6592, 6065, 5580, 5134, 4724,
              4346, 3998, 3679, 3385, 3114, 2865, 2636, 2425, 2231, 2053,
              1889, 1738, 1599, 1471, 1353>>

\* math.exp(-h / 12.0) in 1/10000, h in whole hours
RECURSIVE ExpNeg12(_)
ExpNeg12(h) ==
    IF h <= 24 THEN ExpTable[h + 1] ELSE (ExpNeg12(h - 12) * 3679) \div ONE

LogTable == <<0, 6931, 10986, 13863, 16094, 17918, 19459, 20794, 21972, 23026,
              23979, 24849, 25649, 26391, 27081, 27726, 28332, 28904, 29444,
              29957, 30445>>

\* math.log1p(x) in 1/10000, x a whole number
\* beyond the table log(1 + x) = log 2 + log(1 + (x - 1)/2), the half
\* taken between its two whole neighbours
RECURSIVE Log1p(_)
Log1p(x) ==
    IF x <= 20 THEN LogTable[x + 1]
    ELSE 6931 + (Log1p((x - 1) \div 2) + Log1p(x \div 2)) \div 2

\* pay_score as it would be if it compared pay_min, not the midpoint, with
\* the floor
pay_score_MinOnly(pay_min, pay_max, target_floor) ==
    IF ~(FloatOk(pay_min) /\ FloatOk(pay_max) /\ FloatOk(target_floor)) THEN 5000
    ELSE LET lo == FloatOf(pay_min)
             floor == PyMax(0, FloatOf(target_floor))
             val == IF lo = NaN THEN NaN ELSE (lo * ONE) \div floor
         IN  IF floor <= 0 THEN ONE
             ELSE PyMax(0, PyMin(ONE, val))

\* pay in whole currency units; the result in 1/10000
pay_score(pay_min, pay_max, target_floor) ==
    IF ~(FloatOk(pay_min) /\ FloatOk(pay_max) /\ FloatOk(target_floor)) THEN 5000
    ELSE LET lo == FloatOf(pay_min)
             hi == FloatOf(pay_max)
             floor == PyMax(0, FloatOf(target_floor))
             val == IF lo = NaN \/ hi = NaN THEN NaN
                    ELSE ((lo + hi) * ONE) \div (2 * floor)
         IN  IF floor <= 0 THEN ONE
             ELSE PyMax(0, PyMin(ONE, val))

\* response_fast_prob in 1/10000, median_hours in whole hours
fast_reply_score(response_fast_prob, median_hours) ==
    IF response_fast_prob.t = "num"
    THEN PyMax(0, PyMin(ONE, response_fast_prob.v))
    ELSE IF ~FloatOk(median_hours) THEN 5000
    ELSE LET h == FloatOf(median_hours)
         IN  IF h = NaN THEN NaN
             ELSE IF h < 0 THEN 5000
             ELSE ExpNeg12(h)

market_load_penalty(active_apps_last_24h) ==
    IF ~FloatOk(active_apps_last_24h) THEN 0
    ELSE Log1p(PyMax(0, FloatOf(active_apps_last_24h)))

\* ------------------------------------------------------------ skill matcher
\* The exact-substring branch of req_score: the number of must-haves that
\* occur in the normalised applicant text.
RECURSIVE SubstrHits(_, _)
SubstrHits(at, must_haves) ==
    IF must_haves = <<>> THEN 0
    ELSE (IF Head(must_haves) # <<>> /\ IsSubstr(Head(must_haves), at) THEN 1 ELSE 0)
         + SubstrHits(at, Tail(must_haves))

\* Stand-in for the pretrained sentence model: the cosine (in 1/10000) it
\* gives a text and a skill.  A fixed function of its two arguments, as the
\* model is; it calls texts similar that share their first letter, which is
\* not what substring matching does.
DenseSkillCos(at, m) ==
    IF m # <<>> /\ at # <<>> /\ Head(at) = Head(m) THEN 8000 ELSE 2000

RECURSIVE FuzzyHits(_, _)
FuzzyHits(at, must_haves) ==
    IF must_haves = <<>> THEN 0
    ELSE (IF DenseSkillCos(at, Head(must_haves)) >= FUZZY_THRESHOLD THEN 1 ELSE 0)
         + FuzzyHits(at, Tail(must_haves))

\* the divisor as it would be if the hits were not divided at all
PyMaxLen_One(must_haves) == 1

\* max(len(must_haves), 1)
PyMaxLen(must_haves) == IF Len(must_haves) > 1 THEN Len(must_haves) ELSE 1

\* req_score as a function of the strategy the call ends up using:
\* "none" (early return), "dense" or "substr".  Result in 1/10000.
ReqStrategy(applicant_text, must_haves, useSt, modelFails) ==
    IF must_haves = <<>> \/ _norm_text(applicant_text) = <<>> THEN "none"
    ELSE IF useSt /\ ~modelFails THEN "dense"
    ELSE "substr"

\* req_score as it would be if it looked at the applicant text first
req_score_TextFirst(applicant_text, must_haves, useSt, modelFails) ==
    LET at == _norm_text(applicant_text)
    IN  IF at = <<>> THEN 0
        ELSE IF must_haves = <<>> THEN ONE
        ELSE IF useSt /\ ~modelFails
             THEN (FuzzyHits(at, must_haves) * ONE) \div PyMaxLen(must_haves)
        ELSE (SubstrHits(at, must_haves) * ONE) \div PyMaxLen(must_haves)

req_score(applicant_text, must_haves, useSt, modelFails) ==
    LET at == _norm_text(applicant_text)
    IN  IF must_haves = <<>> THEN ONE
        ELSE IF at = <<>> THEN 0
        ELSE IF useSt /\ ~modelFails
             THEN (FuzzyHits(at, must_haves) * ONE) \div PyMaxLen(must_haves)
        ELSE (SubstrHits(at, must_haves) * ONE) \div PyMaxLen(must_haves)

\* req_score as it would be if it tried the dense model on every call,
\* whatever the flag says
ReqLoadsModel_Retrying(applicant_text, must_haves, useSt) ==
    must_haves # <<>> /\ _norm_text(applicant_text) # <<>>

\* whether the call reaches SentenceTransformer(...) at all
ReqLoadsModel(applicant_text, must_haves, useSt) ==
    must_haves # <<>> /\ _norm_text(applicant_text) # <<>> /\ useSt

\* --------------------------------------------------------- targeting boost
\* str.split(): the whitespace-separated words of a text, as a set
RECURSIVE WordSet(_, _)
WordSet(s, cur) ==
    IF s = <<>> THEN (IF cur = <<>> THEN {} ELSE {cur})
    ELSE IF Head(s) = " "
         THEN (IF cur = <<>> THEN {} ELSE {cur}) \cup WordSet(Tail(s), <<>>)
    ELSE WordSet(Tail(s), Append(cur, Head(s)))

\* a targeting field of the applicant raises when it is truthy but not a
\* string (a blank csv cell is a float NaN, which has no .lower())
TargetRaises(x) == Truthy(x) /\ ~IsStr(x)

targeting_raises(applicant_row, job_row) ==
    \/ TargetRaises(applicant_row.target_employer)
    \/ TargetRaises(applicant_row.target_job_title)
    \/ TargetRaises(applicant_row.target_job_city)

TargetMatches(applicant_row, job_row) ==
    LET te == applicant_row.target_employer
        tt == applicant_row.target_job_title
        tc == applicant_row.target_job_city
        job_employer == LowerStr(StrOf(job_row.employer_name))
        job_title == LowerStr(StrOf(job_row.title))
        job_city == LowerStr(StrOf(job_row.city))
    IN  (IF Truthy(te) /\ (IsSubstr(LowerStr(te.s), job_employer)
                            \/ IsSubstr(job_employer, LowerStr(te.s)))
         THEN 1 ELSE 0)
      + (IF Truthy(tt) /\ (WordSet(LowerStr(tt.s), <<>>)
                            \cap WordSet(job_title, <<>>)) # {}
         THEN 1 ELSE 0)
      + (IF Truthy(tc) /\ (IsSubstr(LowerStr(tc.s), job_city)
                            \/ IsSubstr(job_city, LowerStr(tc.s)))
         THEN 1 ELSE 0)

MinInt(a, b) == IF a < b THEN a ELSE b

\* the boost as it would be without the two caps
targeting_boost_Uncapped(applicant_row, job_row) ==
    TargetMatches(applicant_row, job_row) * 35000
        + (IF Truthy(job_row.fast_reply_certified) THEN 20000 ELSE 0)

\* result in 1/1000000; defined when targeting_raises is false
targeting_boost(applicant_row, job_row) ==
    IF ~(Truthy(applicant_row.target_employer)
         \/ Truthy(applicant_row.target_job_title)
         \/ Truthy(applicant_row.target_job_city))
    THEN 0
    ELSE LET matches == TargetMatches(applicant_row, job_row)
             boost == MinInt(100000, matches * 35000)
         IN  IF matches > 0
             THEN (IF Truthy(job_row.fast_reply_certified)
                   THEN MinInt(100000, boost + 20000) ELSE boost)
             ELSE 0

\* ------------------------------------------------------------- input tables
NoFile == [t |-> "nofile"]
Absent == Str(<<>>)

AppPool == <<
    [id |-> 1, resume_text |-> NaNCell, skills_text |-> Str(<<"a", "b">>),
     skills_tags |-> NaNCell, certs |-> NaNCell, target_pay_min |-> Num(25),
     target_employer |-> Str(<<"b">>), target_job_title |-> Absent,
     target_job_city |-> Absent],
    [id |-> 2, resume_text |-> Str(<<" ", "C", "a">>), skills_text |-> NaNCell,
     skills_tags |-> Str(<<"b", "c", ";", "a">>), certs |-> NaNCell,
     target_pay_min |-> NaNCell,
     target_employer |-> Str(<<"A", "b">>), target_job_title |-> Absent,
     target_job_city |-> Absent],
    [id |-> 3, resume_text |-> NaNCell, skills_text |-> Str(<<"c", "c">>),
     skills_tags |-> NaNCell, certs |-> Str(<<"a">>), target_pay_min |-> Num(40),
     target_employer |-> Str(<<"c">>), target_job_title |-> Absent,
     target_job_city |-> Absent] >>

JobPool == <<
    [id |-> 1, employer_name |-> Str(<<"a", "b">>), title |-> Str(<<"b">>),
     city |-> Str(<<"c">>), pay_min |-> Num(28), pay_max |-> Num(35),
     must_have_skills |-> Str(<<"a", ";", "c", "a">>), nice_to_have |-> NaNCell,
     description |-> Str(<<"a", "b">>), response_fast_prob |-> NaNCell,
     response_median_reply_hours |-> Num(6), active_apps_last_24h |-> Num(0),
     fast_reply_certified |-> Num(0)],
    [id |-> 2, employer_name |-> Str(<<"B">>), title |-> Str(<<"a">>),
     city |-> Str(<<"c">>), pay_min |-> Num(20), pay_max |-> Num(20),
     must_have_skills |-> Str(<<"B", "c">>), nice_to_have |-> Str(<<"a">>),
     description |-> Str(<<"b", "c">>), response_fast_prob |-> Num(9000),
     response_median_reply_hours |-> NaNCell, active_apps_last_24h |-> Num(3),
     fast_reply_certified |-> Num(1)],
    [id |-> 3, employer_name |-> Str(<<"c">>), title |-> Str(<<"c">>),
     city |-> Str(<<"a">>), pay_min |-> Num(10), pay_max |-> Num(30),
     must_have_skills |-> NaNCell, nice_to_have |-> NaNCell,
     description |-> Str(<<"c", "c">>), response_fast_prob |-> NaNCell,
     response_median_reply_hours |-> Num(12), active_apps_last_24h |-> Num(1),
     fast_reply_certified |-> Num(0)] >>

\* the i-th record of a table of any length, ids made distinct
AppRow(i) == [AppPool[((i - 1) % Len(AppPool)) + 1] EXCEPT !.id = i]
JobRow(j) == [JobPool[((j - 1) % Len(JobPool)) + 1] EXCEPT !.id = j]

\* a csv read by pd.read_csv
Table(content) == [t |-> "table", rows |-> content]

AppTable(n) == Table([i \in 1..n |-> AppRow(i)])
JobTable(n) == Table([j \in 1..n |-> JobRow(j)])

PartOf(x) == IF IsStr(x) THEN <<x.s>> ELSE <<>>
PartRepl(x) == IF IsStr(x) THEN <<ReplaceSemi(x.s)>> ELSE <<>>

\* applicant text: resume_text (if not blank), skills_text, tags, certs
AppText(r) ==
    Strip(JoinSpace(
        (IF IsStr(r.resume_text) /\ Strip(r.resume_text.s) # <<>>
         THEN <<r.resume_text.s>> ELSE <<>>)
        \o PartOf(r.skills_text) \o PartRepl(r.skills_tags) \o PartRepl(r.certs)))

\* job text: description, must-haves, nice-to-haves
JobText(r) ==
    Strip(JoinSpace(PartOf(r.description) \o PartRepl(r.must_have_skills)
                    \o PartRepl(r.nice_to_have)))

\* -------------------------------------------------------------- embeddings
\* Stand-ins for the two embedding backends: the cosine (1/10000) of an
\* applicant text and a job text.  Both are fixed functions of the texts.
\* A dense cosine can be negative (here: for texts that begin with "z" and
\* another letter); a TF-IDF cosine cannot.
DenseCos(x, y) ==
    IF x = <<>> \/ y = <<>> THEN 0
    ELSE IF LowerStr(x) = LowerStr(y) THEN ONE
    ELSE IF Lower(Head(x)) = Lower(Head(y)) THEN 7000
    ELSE IF Head(x) = "z" \/ Head(y) = "z" THEN -2000
    ELSE 3000

\* TfidfVectorizer keeps lower-cased words of two or more characters
Vocab(x) == {w \in WordSet(LowerStr(x), <<>>) : Len(w) >= 2}

TfidfCos(x, y) ==
    LET shared == Cardinality(Vocab(x) \cap Vocab(y))
        total == Cardinality(Vocab(x) \cup Vocab(y))
    IN  IF shared = 0 THEN 0 ELSE (shared * ONE) \div total

COS(strategy, x, y) == IF strategy = "dense" THEN DenseCos(x, y) ELSE TfidfCos(x, y)

RECURSIVE AllVocab(_)
AllVocab(texts) ==
    IF texts = <<>> THEN {} ELSE Vocab(Head(texts)) \cup AllVocab(Tail(texts))

\* fit_transform raises "empty vocabulary" when no document has a word
TfidfRaises(all_texts) == AllVocab(all_texts) = {}

\* --------------------------------------------------------- cluster booster
ISqrt(n) == CHOOSE r \in 0..n : r * r <= n /\ (r + 1) * (r + 1) > n

MaxInt(a, b) == IF a > b THEN a ELSE b

NClusters(n_jobs) == MaxInt(2, MinInt(20, ISqrt(n_jobs)))

Zeros(n) == [i \in 1..n |-> 0]

RECURSIVE SumSeq(_)
SumSeq(q) == IF q = <<>> THEN 0 ELSE Head(q) + SumSeq(Tail(q))

\* Stand-in for KMeans(random_state=42).fit_predict: a fixed partition of
\* the jobs into k clusters, and the similarity of an applicant to a centre
\* as the mean similarity to the cluster's jobs.
KMeansLabel(j, k) == (j - 1) % k

CentreSim(strategy, atext, jtexts, c, k) ==
    LET members == {j \in DOMAIN jtexts : KMeansLabel(j, k) = c}
        sims == [j \in DOMAIN jtexts |->
                    IF j \in members THEN COS(strategy, atext, jtexts[j]) ELSE 0]
    IN  IF members = {} THEN 0 ELSE SumSeq(sims) \div Cardinality(members)

\* np.argmax: the first index of the maximum
ArgMaxCentre(strategy, atext, jtexts, k) ==
    CHOOSE c \in 0..(k - 1) :
        /\ \A d \in 0..(k - 1) :
              CentreSim(strategy, atext, jtexts, d, k)
                  <= CentreSim(strategy, atext, jtexts, c, k)
        /\ \A d \in 0..(c - 1) :
              CentreSim(strategy, atext, jtexts, d, k)
                  < CentreSim(strategy, atext, jtexts, c, k)

\* (job_clusters, applicant_nearest_clusters, cluster_distances), and the
\* n_clusters given to KMeans (0 when KMeans is not called)
cluster_jobs_and_find_nearest(strategy, atexts, jtexts, useKmeans) ==
    LET n_jobs == Len(jtexts)
        n_apps == Len(atexts)
        k == NClusters(n_jobs)
    IN  IF ~useKmeans \/ n_jobs < 2
        THEN [job_clusters |-> Zeros(n_jobs), nearest |-> Zeros(n_apps),
              distances |-> Zeros(n_apps), n_clusters |-> 0]
        ELSE [job_clusters |-> [j \in 1..n_jobs |-> KMeansLabel(j, k)],
              n_clusters |-> k,
              nearest |-> [a \in 1..n_apps |->
                              ArgMaxCentre(strategy, atexts[a], jtexts, k)],
              distances |-> [a \in 1..n_apps |->
                              CentreSim(strategy, atexts[a], jtexts,
                                  ArgMaxCentre(strategy, atexts[a], jtexts, k), k)]]

\* ----------------------------------------------------------- final score
\* the proxy as it would be with the two weights exchanged
InterviewProxy_SemFirst(req, sem) ==
    PyMax(0, PyMin(ONE, (2 * req + 8 * sem) \div 10))

\* max(0.0, min(1.0, 0.8 * req + 0.2 * sem))
InterviewProxy(req, sem) == PyMax(0, PyMin(ONE, (8 * req + 2 * sem) \div 10))

AnyNaN(q) == \E i \in DOMAIN q : q[i] = NaN

\* the weighted sum of the six subscores (1/10000) under weights w given as
\* numerators over the denominator w.den; the result is in 1/(10000 * w.den),
\* that is in 1/1000000 for weights in hundredths
WeightedBase(w, fast, interview, req, sem, pay, load_pen) ==
    IF AnyNaN(<<fast, interview, req, sem, pay, load_pen>>) THEN NaN
    ELSE (w.fast_reply_weight * fast + w.interview_weight * interview
          + w.req_weight * req + w.sem_weight * sem + w.pay_weight * pay
          - w.load_penalty_weight * load_pen)

\* the expression as it would be if the load penalty were added
base_score_LoadAdded(fast, interview, req, sem, pay, load_pen) ==
    IF AnyNaN(<<fast, interview, req, sem, pay, load_pen>>) THEN NaN
    ELSE 35 * fast + 25 * interview + 30 * req + 5 * sem + 5 * pay
         + 5 * load_pen

\* the weights written into the base_score expression of main
HardCodedWeights ==
    [fast_reply_weight |-> W_FAST, interview_weight |-> W_INTERVIEW,
     req_weight |-> W_REQ, sem_weight |-> W_SEM, pay_weight |-> W_PAY,
     load_penalty_weight |-> W_LOAD, den |-> 100]

base_score(fast, interview, req, sem, pay, load_pen) ==
    WeightedBase(HardCodedWeights, fast, interview, req, sem, pay, load_pen)

\* the boost as it would be if every job got it, whatever its cluster
ClusterBoost_AnyCluster(nearest_cluster, job_cluster, cluster_distance) ==
    MinInt(50000, cluster_distance * 5)

\* the boost as it would be if it were a flat 0.05 for the nearest cluster
ClusterBoost_Flat(nearest_cluster, job_cluster, cluster_distance) ==
    IF nearest_cluster >= 0 /\ job_cluster = nearest_cluster THEN 50000 ELSE 0

\* min(0.05, cluster_distance * 0.05) in 1/1000000
ClusterBoost(nearest_cluster, job_cluster, cluster_distance) ==
    IF nearest_cluster >= 0 /\ job_cluster = nearest_cluster
    THEN MinInt(50000, cluster_distance * 5)
    ELSE 0

\* the sum as it would be if the targeting boost were taken off the base
AddScore_TargetSubtracted(base, target_boost, cluster_boost) ==
    IF base = NaN THEN NaN ELSE base - target_boost + cluster_boost

\* the sum as it would be if it were clamped to [0, 1]
AddScore_Clamped(base, target_boost, cluster_boost) ==
    IF base = NaN THEN NaN
    ELSE MaxInt(0, MinInt(1000000, base + target_boost + cluster_boost))

AddScore(base, target_boost, cluster_boost) ==
    IF base = NaN THEN NaN ELSE base + target_boost + cluster_boost

\* round(x, 4) of a value in 1/1000000: to 1/10000, half to even
Round4(x) ==
    IF x = NaN THEN NaN
    ELSE LET q == x \div 100
             r == x % 100
         IN  IF r > 50 THEN q + 1
             ELSE IF r < 50 THEN q
             ELSE IF q % 2 = 0 THEN q ELSE q + 1

\* the update as it would be with >= for >: the last job of a tie wins
UpdateBest_LastSeen(b, score, j) ==
    IF score # NaN /\ score >= b.score THEN [score |-> score, ji |-> j] ELSE b

\* if score > best_score: the job becomes the applicant's best so far (a
\* NaN score compares false)
UpdateBest(b, score, j) ==
    IF score # NaN /\ score > b.score THEN [score |-> score, ji |-> j] ELSE b

\* ------------------------------------------------------------ output tables
File(r, content) == [t |-> "file", run |-> r, rows |-> content]

\* a score sorts before another: descending, NaN last
ScoreBefore(a, b) == a # NaN /\ (b = NaN \/ a > b)

\* sort_values("score", ascending=False), stable
RECURSIVE InsertRanked(_, _)
InsertRanked(sorted, r) ==
    IF sorted = <<>> THEN <<r>>
    ELSE IF ScoreBefore(r.score, Head(sorted).score) THEN <<r>> \o sorted
    ELSE <<Head(sorted)>> \o InsertRanked(Tail(sorted), r)

RECURSIVE SortRanked(_)
SortRanked(q) ==
    IF q = <<>> THEN <<>>
    ELSE InsertRanked(SortRanked(SubSeq(q, 1, Len(q) - 1)), q[Len(q)])

\* sort_values(["applicant_id", "score"], ascending=[True, False]), stable
DetailedBefore(x, y) ==
    \/ x.applicant_id < y.applicant_id
    \/ x.applicant_id = y.applicant_id /\ ScoreBefore(x.score, y.score)

\* the insertion as it would be if only one row were kept per applicant
InsertDetailed_OnePerApplicant(sorted, r) ==
    IF \E n \in DOMAIN sorted : sorted[n].applicant_id = r.applicant_id
    THEN sorted
    ELSE Append(sorted, r)

RECURSIVE InsertDetailed(_, _)
InsertDetailed(sorted, r) ==
    IF sorted = <<>> THEN <<r>>
    ELSE IF DetailedBefore(r, Head(sorted)) THEN <<r>> \o sorted
    ELSE <<Head(sorted)>> \o InsertDetailed(Tail(sorted), r)

RECURSIVE SortDetailed(_)
SortDetailed(q) ==
    IF q = <<>> THEN <<>>
    ELSE InsertDetailed(SortDetailed(SubSeq(q, 1, Len(q) - 1)), q[Len(q)])

\* ------------------------------------------------------------------- state
VARIABLES
    _USE_ST,          \* process-wide flag of foundational_model
    stImported,       \* sentence_transformers imported (so TfidfVectorizer was not)
    _USE_KMEANS,      \* process-wide flag: sklearn clustering imported
    apps, jobs,       \* the input tables (NoFile when the csv is missing)
    pc,               \* position of the scoring process
    run,              \* number of main() invocations started in this process
    ai, ji,           \* loop indices of the applicant x job loop (1-based)
    semStrategy,      \* embedding backend make_pair_embeddings used in this run
    clusters,         \* result of cluster_jobs_and_find_nearest
    best,             \* best_score / best_j of the current applicant
    rows,             \* rows of the ranked table being built
    detailed_rows,    \* rows of the detailed table being built
    rankedFile,       \* top_matches.csv
    detailedFile,     \* top_matches_detailed.csv
    weightsFile,      \* weights.json
    strategyLog,      \* strategy of every req_score call of this run, in order
    baseLog,          \* base_score of every pair of this run, in loop order
    loads,            \* SentenceTransformer(...) constructions so far
    loadFailed,       \* some dense-model call has raised in this process
    raisedInRun,      \* some dense-model call has raised in the current run
    weightsAtStart,   \* weights.json as it was when the current run started
    history,          \* outcome of every finished run
    lastLearn         \* what the last WeightLearner run saw and did

vars == <<_USE_ST, stImported, _USE_KMEANS, apps, jobs, pc, run, ai, ji,
          semStrategy, clusters, best, rows, detailed_rows, rankedFile,
          detailedFile, weightsFile, strategyLog, baseLog, loads, loadFailed,
          raisedInRun, weightsAtStart, history, lastLearn>>

engineVars == <<_USE_ST, stImported, _USE_KMEANS, apps, jobs, pc, run, ai, ji,
                semStrategy, clusters, best, rows, detailed_rows, rankedFile,
                detailedFile, strategyLog, baseLog, loads, loadFailed,
                raisedInRun, weightsAtStart, history>>

BEST_INIT == -1000000000
NoBest == [score |-> BEST_INIT, ji |-> 0]
NoClusters == [job_clusters |-> <<>>, nearest |-> <<>>, distances |-> <<>>,
               n_clusters |-> 0]
NoLearn == [path |-> "none", n |-> 0, p |-> 0, fitted |-> FALSE,
            raised |-> FALSE, wrote |-> FALSE, result |-> "none"]

AppTexts == [i \in DOMAIN apps.rows |-> AppText(apps.rows[i])]
JobTexts == [j \in DOMAIN jobs.rows |-> JobText(jobs.rows[j])]
JobMustLists == [j \in DOMAIN jobs.rows |-> _list_from_field(jobs.rows[j].must_have_skills)]

\* the import block: either sentence_transformers imports and the flag
\* stays True, or it does not and TfidfVectorizer is imported instead
InitEngine ==
    /\ stImported \in BOOLEAN
    /\ _USE_ST = stImported
    /\ _USE_KMEANS \in BOOLEAN
    /\ apps \in {NoFile} \cup {AppTable(n) : n \in 0..NumApps}
    /\ jobs \in {NoFile} \cup {JobTable(n) : n \in 0..NumJobs}
    /\ pc = "idle"
    /\ run = 0
    /\ ai = 1
    /\ ji = 1
    /\ semStrategy = "none"
    /\ clusters = NoClusters
    /\ best = NoBest
    /\ rows = <<>>
    /\ detailed_rows = <<>>
    /\ rankedFile = NoFile
    /\ strategyLog = <<>>
    /\ baseLog = <<>>
    /\ loads = 0
    /\ loadFailed = FALSE
    /\ raisedInRun = FALSE
    /\ weightsAtStart = NoFile
    /\ history = <<>>

Init ==
    /\ InitEngine
    /\ detailedFile = NoFile
    /\ weightsFile = NoFile
    /\ lastLearn = NoLearn

\* ------------------------------------------------------------ ScoringEngine
\* what a run leaves in the history when it ends: its status, the step that
\* raised (if one did) and the ranked table it wrote (if it did)
Outcome(st, cause, ranked, log, raised) ==
    [status |-> st,
     cause |-> cause,
     ranked |-> IF ranked.t = "file" /\ ranked.run = run THEN ranked.rows ELSE <<>>,
     strategies |-> log,
     denseRaised |-> raised]

\* main() is entered: the flags of the process are kept, the two tables are
\* read; a missing table raises before anything else happens
StartRun ==
    /\ pc \in {"idle", "done", "failed"}
    /\ run < MaxRuns
    /\ run' = run + 1
    /\ ai' = 1
    /\ ji' = 1
    /\ semStrategy' = "none"
    /\ clusters' = NoClusters
    /\ best' = NoBest
    /\ rows' = <<>>
    /\ detailed_rows' = <<>>
    /\ strategyLog' = <<>>
    /\ baseLog' = <<>>
    /\ raisedInRun' = FALSE
    /\ weightsAtStart' = weightsFile
    /\ IF apps = NoFile \/ jobs = NoFile
       THEN /\ pc' = "failed"
            /\ history' = Append(history,
                   [status |-> "failed", cause |-> "input", ranked |-> <<>>,
                    strategies |-> <<>>, denseRaised |-> FALSE])
       ELSE /\ pc' = "embed"
            /\ UNCHANGED history
    /\ UNCHANGED <<_USE_ST, stImported, _USE_KMEANS, apps, jobs, rankedFile,
                   detailedFile, weightsFile, loads, loadFailed, lastLearn>>

\* the TF-IDF branch of make_pair_embeddings: TfidfVectorizer is a name of
\* the module only when the import of sentence_transformers failed
TfidfFallback(raised) ==
    IF stImported \/ TfidfRaises(AppTexts \o JobTexts)
    THEN /\ pc' = "failed"
         /\ history' = Append(history, Outcome("failed", "embed", rankedFile,
                                               strategyLog, raised))
         /\ UNCHANGED semStrategy
    ELSE /\ pc' = "cluster"
         /\ semStrategy' = "tfidf"
         /\ UNCHANGED history

\* make_pair_embeddings with the dense model loading and encoding
EmbedDense ==
    /\ pc = "embed"
    /\ _USE_ST
    /\ loads' = loads + 1
    /\ semStrategy' = "dense"
    /\ pc' = "cluster"
    /\ UNCHANGED <<raisedInRun, baseLog, _USE_ST, stImported, _USE_KMEANS, apps, jobs, run, ai, ji,
                   clusters, best, rows, detailed_rows, rankedFile,
                   detailedFile, weightsFile, strategyLog, loadFailed,
                   weightsAtStart, history, lastLearn>>

\* make_pair_embeddings with the dense model raising: the flag is cleared
\* and the call goes on into the TF-IDF branch
EmbedDenseFails ==
    /\ pc = "embed"
    /\ _USE_ST
    /\ loads' = loads + 1
    /\ _USE_ST' = FALSE
    /\ loadFailed' = TRUE
    /\ raisedInRun' = TRUE
    /\ TfidfFallback(TRUE)
    /\ UNCHANGED <<baseLog, stImported, _USE_KMEANS, apps, jobs, run, ai, ji, clusters,
                   best, rows, detailed_rows, rankedFile, detailedFile,
                   weightsFile, strategyLog, weightsAtStart, lastLearn>>

\* make_pair_embeddings with the flag already cleared
EmbedFallback ==
    /\ pc = "embed"
    /\ ~_USE_ST
    /\ TfidfFallback(raisedInRun)
    /\ UNCHANGED <<raisedInRun, baseLog, _USE_ST, stImported, _USE_KMEANS, apps, jobs, run, ai, ji,
                   clusters, best, rows, detailed_rows, rankedFile,
                   detailedFile, weightsFile, strategyLog, loads, loadFailed,
                   weightsAtStart, lastLearn>>

\* cosine_sim_matrix and cluster_jobs_and_find_nearest
Cluster ==
    /\ pc = "cluster"
    /\ clusters' = cluster_jobs_and_find_nearest(semStrategy, AppTexts, JobTexts,
                                                 _USE_KMEANS)
    /\ pc' = "loop"
    /\ UNCHANGED <<raisedInRun, baseLog, _USE_ST, stImported, _USE_KMEANS, apps, jobs, run, ai, ji,
                   semStrategy, best, rows, detailed_rows, rankedFile,
                   detailedFile, weightsFile, strategyLog, loads, loadFailed,
                   weightsAtStart, history, lastLearn>>

\* cluster_jobs_and_find_nearest with KMeans or cosine_similarity raising
\* inside its try block: the except branch returns the zero arrays
ClusterRaises ==
    /\ pc = "cluster"
    /\ _USE_KMEANS
    /\ Len(jobs.rows) >= 2
    /\ clusters' = [job_clusters |-> Zeros(Len(jobs.rows)),
                    nearest |-> Zeros(Len(apps.rows)),
                    distances |-> Zeros(Len(apps.rows)), n_clusters |-> 0]
    /\ pc' = "loop"
    /\ UNCHANGED <<raisedInRun, baseLog, _USE_ST, stImported, _USE_KMEANS, apps, jobs, run, ai, ji,
                   semStrategy, best, rows, detailed_rows, rankedFile,
                   detailedFile, weightsFile, strategyLog, loads, loadFailed,
                   weightsAtStart, history, lastLearn>>

\* one iteration of the inner loop, for applicant ai and job ji; modelFails
\* says whether the dense model raises if req_score comes to use it
ScorePair(modelFails) ==
    /\ pc = "loop"
    /\ ai <= Len(apps.rows)
    /\ ji <= Len(jobs.rows)
    /\ LET arow == apps.rows[ai]
           jrow == jobs.rows[ji]
           a_text == AppTexts[ai]
           must == JobMustLists[ji]
           calls == ReqLoadsModel(a_text, must, _USE_ST)
           fails == calls /\ modelFails
           sem == COS(semStrategy, a_text, JobTexts[ji])
           req == req_score(a_text, must, _USE_ST, fails)
           pay == pay_score(jrow.pay_min, jrow.pay_max, arow.target_pay_min)
           fast == fast_reply_score(jrow.response_fast_prob,
                                    jrow.response_median_reply_hours)
           load_pen == market_load_penalty(jrow.active_apps_last_24h)
           interview == InterviewProxy(req, sem)
           base == base_score(fast, interview, req, sem, pay, load_pen)
           nearest_cluster == IF Len(clusters.nearest) >= ai
                              THEN clusters.nearest[ai] ELSE -1
           cluster_distance == IF Len(clusters.distances) >= ai
                               THEN clusters.distances[ai] ELSE 0
           job_cluster == IF Len(clusters.job_clusters) >= ji
                          THEN clusters.job_clusters[ji] ELSE -1
           cluster_boost == ClusterBoost(nearest_cluster, job_cluster,
                                         cluster_distance)
       IN  /\ modelFails => calls
           /\ loads' = IF calls THEN loads + 1 ELSE loads
           /\ _USE_ST' = IF fails THEN FALSE ELSE _USE_ST
           /\ loadFailed' = (loadFailed \/ fails)
           /\ raisedInRun' = (raisedInRun \/ fails)
           /\ strategyLog' = Append(strategyLog,
                                    ReqStrategy(a_text, must, _USE_ST, fails))
           /\ baseLog' = Append(baseLog, base)
           /\ IF targeting_raises(arow, jrow)
              THEN /\ pc' = "failed"
                   /\ history' = Append(history,
                          Outcome("failed", "targeting", rankedFile,
                                  strategyLog', raisedInRun'))
                   /\ UNCHANGED <<detailed_rows, best, ji>>
              ELSE LET target_boost == targeting_boost(arow, jrow)
                       score == AddScore(base, target_boost, cluster_boost)
                   IN  /\ detailed_rows' = Append(detailed_rows,
                              [applicant_id |-> arow.id,
                               job_id |-> jrow.id,
                               score |-> Round4(score),
                               sem_score |-> sem,
                               req_score |-> req,
                               pay_score |-> pay,
                               fast_reply_score |-> fast,
                               load_penalty |-> load_pen,
                               interview_score |-> interview,
                               target_boost |-> Round4(target_boost),
                               cluster_boost |-> Round4(cluster_boost),
                               job_cluster |-> job_cluster,
                               applicant_nearest_cluster |-> nearest_cluster,
                               cluster_distance |-> cluster_distance])
                       /\ best' = UpdateBest(best, score, ji)
                       /\ ji' = ji + 1
                       /\ UNCHANGED <<pc, history>>
    /\ UNCHANGED <<stImported, _USE_KMEANS, apps, jobs, run, ai, semStrategy,
                   clusters, rows, rankedFile, detailedFile, weightsFile,
                   weightsAtStart, lastLearn>>

\* the end of the inner loop: the applicant's best job, if there is one,
\* becomes a row of the ranked table
FinishApplicant ==
    /\ pc = "loop"
    /\ ai <= Len(apps.rows)
    /\ ji > Len(jobs.rows)
    /\ rows' = IF best.ji # 0
               THEN Append(rows, [applicant_id |-> apps.rows[ai].id,
                                  job_id |-> jobs.rows[best.ji].id,
                                  score |-> Round4(best.score)])
               ELSE rows
    /\ ai' = ai + 1
    /\ ji' = 1
    /\ best' = NoBest
    /\ UNCHANGED <<raisedInRun, baseLog, _USE_ST, stImported, _USE_KMEANS, apps, jobs, pc, run,
                   semStrategy, clusters, detailed_rows, rankedFile,
                   detailedFile, weightsFile, strategyLog, loads, loadFailed,
                   weightsAtStart, history, lastLearn>>

\* the outer loop is over
EndLoop ==
    /\ pc = "loop"
    /\ ai > Len(apps.rows)
    /\ pc' = "write_ranked"
    /\ UNCHANGED <<raisedInRun, baseLog, _USE_ST, stImported, _USE_KMEANS, apps, jobs, run, ai, ji,
                   semStrategy, clusters, best, rows, detailed_rows, rankedFile,
                   detailedFile, weightsFile, strategyLog, loads, loadFailed,
                   weightsAtStart, history, lastLearn>>

\* pd.DataFrame(rows).sort_values("score") and to_csv(args.out); an empty
\* frame has no "score" column and sort_values raises; ioFails says whether
\* writing the file raises
WriteRanked(ioFails) ==
    /\ pc = "write_ranked"
    /\ IF rows = <<>> \/ ioFails
       THEN /\ pc' = "failed"
            /\ history' = Append(history,
                   Outcome("failed", IF rows = <<>> THEN "empty" ELSE "io",
                           rankedFile, strategyLog, raisedInRun))
            /\ UNCHANGED rankedFile
       ELSE /\ rankedFile' = File(run, SortRanked(rows))
            /\ pc' = "write_detailed"
            /\ UNCHANGED history
    /\ UNCHANGED <<raisedInRun, baseLog, _USE_ST, stImported, _USE_KMEANS, apps, jobs, run, ai, ji,
                   semStrategy, clusters, best, rows, detailed_rows,
                   detailedFile, weightsFile, strategyLog, loads, loadFailed,
                   weightsAtStart, lastLearn>>

\* the step as it would be if the scoring path saved the weights it used
WriteDetailed_SavesWeights(ioFails) ==
    /\ pc = "write_detailed"
    /\ IF ioFails
       THEN /\ pc' = "failed"
            /\ history' = Append(history, Outcome("failed", "io", rankedFile,
                                                  strategyLog, raisedInRun))
            /\ UNCHANGED <<detailedFile, weightsFile>>
       ELSE /\ detailedFile' = File(run, SortDetailed(detailed_rows))
            /\ weightsFile' = [t |-> "file", weights |-> HardCodedWeights,
                               training_method |-> "default", reason |-> <<>>]
            /\ pc' = "done"
            /\ history' = Append(history, Outcome("done", "none", rankedFile,
                                                  strategyLog, raisedInRun))
    /\ UNCHANGED <<raisedInRun, baseLog, _USE_ST, stImported, _USE_KMEANS, apps, jobs, run, ai, ji,
                   semStrategy, clusters, best, rows, detailed_rows, rankedFile,
                   strategyLog, loads, loadFailed, weightsAtStart,
                   lastLearn>>

\* pd.DataFrame(detailed_rows).sort_values(...) and
\* to_csv("top_matches_detailed.csv")
WriteDetailed(ioFails) ==
    /\ pc = "write_detailed"
    /\ IF ioFails
       THEN /\ pc' = "failed"
            /\ history' = Append(history, Outcome("failed", "io", rankedFile,
                                                  strategyLog, raisedInRun))
            /\ UNCHANGED detailedFile
       ELSE /\ detailedFile' = File(run, SortDetailed(detailed_rows))
            /\ pc' = "done"
            /\ history' = Append(history, Outcome("done", "none", rankedFile,
                                                  strategyLog, raisedInRun))
    /\ UNCHANGED <<raisedInRun, baseLog, _USE_ST, stImported, _USE_KMEANS, apps, jobs, run, ai, ji,
                   semStrategy, clusters, best, rows, detailed_rows, rankedFile,
                   weightsFile, strategyLog, loads, loadFailed, weightsAtStart,
                   lastLearn>>

EngineNext ==
    \/ StartRun
    \/ EmbedDense
    \/ EmbedDenseFails
    \/ EmbedFallback
    \/ Cluster
    \/ \E modelFails \in BOOLEAN : ScorePair(modelFails)
    \/ FinishApplicant
    \/ EndLoop
    \/ \E ioFails \in BOOLEAN : WriteRanked(ioFails)
    \/ \E ioFails \in BOOLEAN : WriteDetailed(ioFails)

\* ------------------------------------------------------------ WeightLearner
Abs(x) == IF x < 0 THEN -x ELSE x

\* np.abs(coefficients) / np.abs(coefficients).sum(), each weight kept as a
\* numerator over the common denominator den; numpy gives 0/0 = nan
normalize_coefficients(coefficients) ==
    LET total == SumSeq([i \in 1..6 |-> Abs(coefficients[i])])
        w(i) == IF total = 0 THEN NaN ELSE Abs(coefficients[i])
    IN  [sem_weight |-> w(1), req_weight |-> w(2), pay_weight |-> w(3),
         fast_reply_weight |-> w(4), load_penalty_weight |-> w(5),
         interview_weight |-> w(6), den |-> IF total = 0 THEN 1 ELSE total]

\* in hundredths
get_default_weights ==
    [sem_weight |-> 25, req_weight |-> 30, pay_weight |-> 15,
     fast_reply_weight |-> 15, load_penalty_weight |-> 5,
     interview_weight |-> 10, den |-> 100]

\* save_weights: the document replaces weights.json
WeightsDoc(weights, method, reason) ==
    [t |-> "file", weights |-> weights, training_method |-> method,
     reason |-> reason]

\* the coefficient vectors a fit may return, in feature order
CoefVectors ==
    { <<0, 0, 0, 0, 0, 0>>, <<1, -2, 0, 3, -1, 1>>, <<-5, 0, 0, 0, 0, 0>>,
      <<2, 2, 2, 2, 2, 2>>, <<-1, -1, -3, -2, -2, -1>>, <<7, 60, 7, 7, 7, 12>> }

\* the run as it would be if a missing table led to the default weights
LearnMissingInput_SavesDefault(eventsOk) ==
    /\ ~eventsOk \/ detailedFile = NoFile
    /\ lastLearn' = [path |-> "missing_input", n |-> 0, p |-> 0,
                     fitted |-> FALSE, raised |-> FALSE, wrote |-> TRUE,
                     result |-> "true"]
    /\ weightsFile' = WeightsDoc(get_default_weights, "default",
                                 <<"insufficient_data", 0, "events">>)
    /\ UNCHANGED engineVars

\* load_and_join_data returns None: events.csv or top_matches_detailed.csv
\* is missing; main returns False
LearnMissingInput(eventsOk) ==
    /\ ~eventsOk \/ detailedFile = NoFile
    /\ lastLearn' = [path |-> "missing_input", n |-> 0, p |-> 0,
                     fitted |-> FALSE, raised |-> FALSE, wrote |-> FALSE,
                     result |-> "false"]
    /\ UNCHANGED weightsFile
    /\ UNCHANGED engineVars

\* total_events < 20: the default weights are saved, main returns True
LearnInsufficient(n, p) ==
    /\ detailedFile # NoFile
    /\ n < MIN_EVENTS
    /\ p <= n
    /\ weightsFile' = WeightsDoc(get_default_weights, "default",
                                 <<"insufficient_data", n, "events">>)
    /\ lastLearn' = [path |-> "insufficient", n |-> n, p |-> p,
                     fitted |-> FALSE, raised |-> FALSE, wrote |-> TRUE,
                     result |-> "true"]
    /\ UNCHANGED engineVars

\* prepare_features finds a feature column missing: main returns False
LearnMissingColumns(n, p) ==
    /\ detailedFile # NoFile
    /\ n >= MIN_EVENTS
    /\ p <= n
    /\ lastLearn' = [path |-> "missing_columns", n |-> n, p |-> p,
                     fitted |-> FALSE, raised |-> FALSE, wrote |-> FALSE,
                     result |-> "false"]
    /\ UNCHANGED weightsFile
    /\ UNCHANGED engineVars

\* train_logistic_model returns None for y.sum() < 2: the default weights
\* are saved, main returns True
LearnTooFewPositives(n, p) ==
    /\ detailedFile # NoFile
    /\ n >= MIN_EVENTS
    /\ p <= n
    /\ p < MIN_POSITIVES
    /\ weightsFile' = WeightsDoc(get_default_weights, "default",
                                 <<"training_failed">>)
    /\ lastLearn' = [path |-> "too_few_positives", n |-> n, p |-> p,
                     fitted |-> FALSE, raised |-> FALSE, wrote |-> TRUE,
                     result |-> "true"]
    /\ UNCHANGED engineVars

\* the scaler, the fit or the cross-validation raises (a fit on labels of
\* one class always does): nothing catches it before the __main__ block,
\* which exits with status 1
LearnFitRaises(n, p) ==
    /\ detailedFile # NoFile
    /\ n >= MIN_EVENTS
    /\ p <= n
    /\ p >= MIN_POSITIVES
    /\ lastLearn' = [path |-> "fit_raises", n |-> n, p |-> p,
                     fitted |-> TRUE, raised |-> TRUE, wrote |-> FALSE,
                     result |-> "fatal"]
    /\ UNCHANGED weightsFile
    /\ UNCHANGED engineVars

\* the fit returns a coefficient vector: the normalised weights are saved
LearnFitted(n, p, coefficients) ==
    /\ detailedFile # NoFile
    /\ n >= MIN_EVENTS
    /\ p >= MIN_POSITIVES
    /\ p < n
    /\ weightsFile' = WeightsDoc(normalize_coefficients(coefficients),
                                 "logistic_regression", <<>>)
    /\ lastLearn' = [path |-> "fitted", n |-> n, p |-> p,
                     fitted |-> TRUE, raised |-> FALSE, wrote |-> TRUE,
                     result |-> "true"]
    /\ UNCHANGED engineVars

\* one run of learn_weights.main, the joined table having np[1] records of
\* which np[2] are positive, for np in Ps, and the fit returning a vector
\* of Vs
LearnerRun(Ps, Vs) ==
    \/ \E eventsOk \in BOOLEAN : LearnMissingInput(eventsOk)
    \/ \E np \in Ps : LearnInsufficient(np[1], np[2])
    \/ \E np \in Ps : LearnMissingColumns(np[1], np[2])
    \/ \E np \in Ps : LearnTooFewPositives(np[1], np[2])
    \/ \E np \in Ps : LearnFitRaises(np[1], np[2])
    \/ \E np \in Ps : \E c \in Vs : LearnFitted(np[1], np[2], c)

\* ---------------------------------------------------------- specifications
\* the scoring process and, beside it, WeightLearner runs on a few inputs
QuickPairs == {<<MIN_EVENTS - 1, 0>>, <<MIN_EVENTS, 1>>, <<MIN_EVENTS, 5>>}
QuickVectors == { <<1, -2, 0, 3, -1, 1>> }

Next ==
    \/ EngineNext
    \/ LearnerRun(QuickPairs, QuickVectors)

Spec == Init /\ [][Next]_vars

\* the WeightLearner on its own, with a detailed table left by an earlier
\* scoring process or none
PriorDetailed ==
    File(0, <<[applicant_id |-> 1, job_id |-> 1, score |-> 6173,
               sem_score |-> 7000, req_score |-> 5000, pay_score |-> 10000,
               fast_reply_score |-> 6065, load_penalty |-> 0,
               interview_score |-> 5400, target_boost |-> 350,
               cluster_boost |-> 0, job_cluster |-> 0,
               applicant_nearest_cluster |-> 0, cluster_distance |-> 0]>>)

InitLearner ==
    /\ InitEngine
    /\ apps = NoFile
    /\ jobs = NoFile
    /\ stImported
    /\ _USE_KMEANS
    /\ detailedFile \in {NoFile, PriorDetailed}
    /\ weightsFile = NoFile
    /\ lastLearn = NoLearn

AllPairs == {np \in (0..MaxEvents) \X (0..MaxEvents) : np[2] <= np[1]}

NextLearner == LearnerRun(AllPairs, CoefVectors)

SpecLearner == InitLearner /\ [][NextLearner]_vars

\* the scoring process and the WeightLearner in one working directory, each
\* input table there or missing, a detailed table left by an earlier process
\* or none
InitFiles ==
    /\ InitEngine
    /\ apps \in {NoFile, AppTable(1)}
    /\ jobs \in {NoFile, JobTable(1)}
    /\ detailedFile \in {NoFile, PriorDetailed}
    /\ weightsFile = NoFile
    /\ lastLearn = NoLearn

SpecFiles == InitFiles /\ [][Next]_vars

\* the scoring process alone, one applicant against job batches of every
\* size up to MaxBatch, the clustering call free to raise
InitBatch ==
    /\ stImported \in BOOLEAN
    /\ _USE_ST = stImported
    /\ _USE_KMEANS \in BOOLEAN
    /\ apps = AppTable(1)
    /\ jobs \in {JobTable(n) : n \in 0..MaxBatch}
    /\ pc = "idle"
    /\ run = 0
    /\ ai = 1
    /\ ji = 1
    /\ semStrategy = "none"
    /\ clusters = NoClusters
    /\ best = NoBest
    /\ rows = <<>>
    /\ detailed_rows = <<>>
    /\ rankedFile = NoFile
    /\ detailedFile = NoFile
    /\ weightsFile = NoFile
    /\ strategyLog = <<>>
    /\ baseLog = <<>>
    /\ loads = 0
    /\ loadFailed = FALSE
    /\ raisedInRun = FALSE
    /\ weightsAtStart = NoFile
    /\ history = <<>>
    /\ lastLearn = NoLearn

NextBatch ==
    \/ EngineNext
    \/ ClusterRaises

SpecBatch == InitBatch /\ [][NextBatch]_vars

\* the scoring process alone, on tables that cover the cells a csv can
\* hold: supplied, blank (NaN), malformed (text in a numeric column) and
\* absent (the .get default)
AB == <<"a", "b">>
ZZ == <<"z", "z">>

AppCases == <<
    \* target employer equal to the employer of the job, floor 25
    [id |-> 1, resume_text |-> NaNCell, skills_text |-> Str(AB),
     skills_tags |-> NaNCell, certs |-> NaNCell, target_pay_min |-> Num(25),
     target_employer |-> Str(AB), target_job_title |-> Absent,
     target_job_city |-> Absent],
    \* all three targeting fields supplied, floor 40
    [id |-> 2, resume_text |-> NaNCell, skills_text |-> Str(AB),
     skills_tags |-> NaNCell, certs |-> NaNCell, target_pay_min |-> Num(40),
     target_employer |-> Str(<<"A", "B">>),
     target_job_title |-> Str(<<"b", " ", "z", "z">>),
     target_job_city |-> Str(<<"c">>)],
    \* no text, a blank floor, no targeting column
    [id |-> 3, resume_text |-> NaNCell, skills_text |-> NaNCell,
     skills_tags |-> NaNCell, certs |-> NaNCell, target_pay_min |-> NaNCell,
     target_employer |-> Absent, target_job_title |-> Absent,
     target_job_city |-> Absent],
    \* the targeting columns are there and this applicant left them blank
    [id |-> 4, resume_text |-> NaNCell, skills_text |-> Str(AB),
     skills_tags |-> NaNCell, certs |-> NaNCell,
     target_pay_min |-> Num(40),
     target_employer |-> NaNCell, target_job_title |-> NaNCell,
     target_job_city |-> NaNCell],
    \* a target employer that matches no job, no floor column
    [id |-> 5, resume_text |-> Str(<<" ", "C", "a">>), skills_text |-> NaNCell,
     skills_tags |-> Str(<<"b", "c", ";", "a">>), certs |-> NaNCell,
     target_pay_min |-> Num(0),
     target_employer |-> Str(ZZ), target_job_title |-> Absent,
     target_job_city |-> Absent],
    \* a negative floor
    [id |-> 6, resume_text |-> NaNCell, skills_text |-> Str(ZZ),
     skills_tags |-> NaNCell, certs |-> NaNCell, target_pay_min |-> Num(-5),
     target_employer |-> Absent, target_job_title |-> Absent,
     target_job_city |-> Absent] >>

JobCases == <<
    JobPool[1],
    \* the same job, fast-reply certified
    [JobPool[1] EXCEPT !.fast_reply_certified = Num(1)],
    \* every numeric cell blank
    [JobPool[1] EXCEPT !.pay_min = NaNCell, !.pay_max = NaNCell,
                       !.fast_reply_certified = NaNCell,
                       !.response_fast_prob = NaNCell,
                       !.response_median_reply_hours = NaNCell,
                       !.active_apps_last_24h = NaNCell],
    \* text in the numeric cells
    [JobPool[1] EXCEPT !.pay_min = Str(<<"x">>),
                       !.response_fast_prob = Str(<<"x">>),
                       !.response_median_reply_hours = Str(<<"x">>),
                       !.active_apps_last_24h = Str(<<"x">>)],
    \* no required skills, every subscore at its top, certified
    [id |-> 5, employer_name |-> Str(AB), title |-> Str(<<"b">>),
     city |-> Str(<<"c">>), pay_min |-> Num(50), pay_max |-> Num(50),
     must_have_skills |-> NaNCell, nice_to_have |-> NaNCell,
     description |-> Str(AB), response_fast_prob |-> Num(12000),
     response_median_reply_hours |-> NaNCell, active_apps_last_24h |-> Num(0),
     fast_reply_certified |-> Num(1)],
    \* a crowded job that pays nothing and never answers
    [id |-> 6, employer_name |-> Str(ZZ), title |-> Str(ZZ),
     city |-> Str(ZZ), pay_min |-> Num(0), pay_max |-> Num(0),
     must_have_skills |-> Str(ZZ), nice_to_have |-> NaNCell,
     description |-> Str(ZZ), response_fast_prob |-> Num(0),
     response_median_reply_hours |-> NaNCell,
     active_apps_last_24h |-> Num(1000),
     fast_reply_certified |-> Num(0)],
    \* the first job with thirty applications in the last day
    [JobPool[1] EXCEPT !.active_apps_last_24h = Num(30)],
    \* the first job with a negative application count
    [JobPool[1] EXCEPT !.active_apps_last_24h = Num(-3)] >>

\* the records q as the rows of a table, their ids made distinct
CaseTable(q) == Table([i \in DOMAIN q |-> [q[i] EXCEPT !.id = i]])

AppCaseTables ==
    {CaseTable(<<AppCases[i]>>) : i \in DOMAIN AppCases}
    \cup {CaseTable(<<AppCases[1], AppCases[2], AppCases[6]>>),
          CaseTable(<<AppCases[3], AppCases[5]>>)}

JobCaseTables ==
    {CaseTable(<<JobCases[j]>>) : j \in DOMAIN JobCases}
    \cup {CaseTable(<<JobCases[1], JobCases[1]>>),
          CaseTable(<<JobCases[1], JobCases[2]>>),
          CaseTable(<<JobCases[3], JobCases[1]>>),
          CaseTable(<<JobCases[6], JobCases[5]>>),
          CaseTable(<<JobCases[7], JobCases[1], JobCases[8]>>)}

InitCases ==
    /\ stImported \in BOOLEAN
    /\ _USE_ST = stImported
    /\ _USE_KMEANS \in BOOLEAN
    /\ apps \in AppCaseTables
    /\ jobs \in JobCaseTables
    /\ pc = "idle"
    /\ run = 0
    /\ ai = 1
    /\ ji = 1
    /\ semStrategy = "none"
    /\ clusters = NoClusters
    /\ best = NoBest
    /\ rows = <<>>
    /\ detailed_rows = <<>>
    /\ rankedFile = NoFile
    /\ detailedFile = NoFile
    /\ weightsFile = NoFile
    /\ strategyLog = <<>>
    /\ baseLog = <<>>
    /\ loads = 0
    /\ loadFailed = FALSE
    /\ raisedInRun = FALSE
    /\ weightsAtStart = NoFile
    /\ history = <<>>
    /\ lastLearn = NoLearn

SpecCases == InitCases /\ [][EngineNext]_vars

\* -------------------------------------------------------------- properties
WeightNames == {"sem_weight", "req_weight", "pay_weight", "fast_reply_weight",
                "load_penalty_weight", "interview_weight"}

\* base_score of the i-th pair of the current run under a weight set w,
\* from the subscores recorded for the pair
BaseUnder(w, i) ==
    LET d == detailed_rows[i]
    IN  WeightedBase(w, d.fast_reply_score, d.interview_score, d.req_score,
                     d.sem_score, d.pay_score, d.load_penalty)

\* C1: a run that starts when a WeightSet is persisted computes every
\* pair's base score with that WeightSet's six coefficients: the base score
\* (in 1/1000000) times the set's denominator equals the weighted sum under
\* the set (in 1/(10000 * den)) times 100.
C1_RunUsesPersistedWeights ==
    (weightsAtStart.t = "file" /\ weightsAtStart.weights.sem_weight # NaN) =>
        \A i \in DOMAIN detailed_rows :
            baseLog[i] * weightsAtStart.weights.den
                = BaseUnder(weightsAtStart.weights, i) * 100

\* C2: with fewer than 20 joined pairs the WeightLearner persists exactly
\* the default WeightSet of the ScoringEngine, with reason insufficient
\* data, and reports success.
C2_InsufficientGivesDocumentedDefault ==
    (lastLearn.path \notin {"none", "missing_input"} /\ lastLearn.n < MIN_EVENTS) =>
        /\ lastLearn.wrote
        /\ lastLearn.result = "true"
        /\ weightsFile.t = "file"
        /\ weightsFile.weights = HardCodedWeights
        /\ weightsFile.reason # <<>>
        /\ weightsFile.reason[1] = "insufficient_data"

\* C3: with at least 20 joined pairs of which fewer than 2 are positive,
\* the WeightLearner fits nothing and persists the default WeightSet with
\* insufficient data recorded as the reason.
C3_FewPositivesGivesDefaultInsufficient ==
    (lastLearn.path \notin {"none", "missing_input"}
        /\ lastLearn.n >= MIN_EVENTS /\ lastLearn.p < MIN_POSITIVES) =>
        /\ ~lastLearn.fitted
        /\ lastLearn.wrote
        /\ weightsFile.t = "file"
        /\ weightsFile.weights = HardCodedWeights
        /\ weightsFile.reason # <<>>
        /\ weightsFile.reason[1] = "insufficient_data"

\* C4: when the fit raises, the WeightLearner still persists the default
\* WeightSet and finishes successfully.
C4_FitFailureFallsBackToDefault ==
    lastLearn.raised =>
        /\ lastLearn.wrote
        /\ lastLearn.result = "true"
        /\ weightsFile.t = "file"
        /\ weightsFile.training_method = "default"

\* C5: every persisted WeightSet has six weights, each a non-negative
\* number, that sum to 1 (their numerators sum to the denominator).
C5_WeightsNormalised ==
    weightsFile.t = "file" =>
        LET w == weightsFile.weights
        IN  /\ DOMAIN w = WeightNames \cup {"den"}
            /\ \A k \in WeightNames : w[k] # NaN /\ w[k] >= 0
            /\ w.sem_weight + w.req_weight + w.pay_weight + w.fast_reply_weight
                   + w.load_penalty_weight + w.interview_weight = w.den

WrittenByThisRun(f) == f.t = "file" /\ f.run = run

\* C6: after a failed run the ranked table is never there from this run
\* while the detailed table is not.
C6_BothTablesOrNeither ==
    pc = "failed" =>
        ~(WrittenByThisRun(rankedFile) /\ ~WrittenByThisRun(detailedFile))

\* C7: within a run no req_score call uses the substring fallback after the
\* dense model was used for the embeddings or for an earlier pair.
C7_StrategyFixedWithinRun ==
    /\ semStrategy = "dense" =>
           \A i \in DOMAIN strategyLog : strategyLog[i] # "substr"
    /\ \A i, j \in DOMAIN strategyLog :
           (i < j /\ strategyLog[i] = "dense") => strategyLog[j] # "substr"

\* C8: a call in which the dense model raises clears the process-wide
\* flag; once the flag is false it stays false and no call constructs the
\* dense model again.
C8_FallbackIsPermanent ==
    [][ /\ loadFailed' => ~_USE_ST'
        /\ ~_USE_ST => (~_USE_ST' /\ loads' = loads) ]_vars

\* a req_score call has raised in a process that imported the library, and
\* a later req_score call of the run went to substring matching
C8_Witness ==
    /\ stImported
    /\ loadFailed
    /\ \E i, j \in DOMAIN strategyLog :
           i < j /\ strategyLog[i] = "substr" /\ strategyLog[j] = "substr"

\* C9: a run whose tables are there and have a vocabulary never fails in
\* make_pair_embeddings, whether the dense library is missing at import or
\* raises at load time.
C9_DenseUnavailableNotFatal ==
    \A i \in DOMAIN history :
        history[i].cause = "embed" => TfidfRaises(AppTexts \o JobTexts)

\* C10: two runs of one process on the same tables and the same WeightSet
\* (none has been persisted so far), the later one meeting no failure of
\* the dense model or of the file system itself, give the same ranked
\* output.
C10_SameInputsSameRanking ==
    \A i, j \in DOMAIN history :
        (/\ i < j
         /\ weightsFile = NoFile
         /\ history[i].cause # "io"
         /\ history[j].cause # "io"
         /\ ~history[j].denseRaised)
        => history[j].ranked = history[i].ranked

\* score = base_score + target_boost + cluster_boost of the i-th pair of
\* the current run, before any rounding
ScoreOf(i) ==
    LET d == detailed_rows[i]
    IN  AddScore(baseLog[i],
                 targeting_boost(apps.rows[d.applicant_id], jobs.rows[d.job_id]),
                 ClusterBoost(d.applicant_nearest_cluster, d.job_cluster,
                              d.cluster_distance))

\* the pairs of the current run that belong to an applicant
PairsOf(applicant_id) ==
    {i \in DOMAIN detailed_rows : detailed_rows[i].applicant_id = applicant_id}

\* C11: in the ranked table a run has written, the job of every row has a
\* final score that no other job of the same candidate exceeds, no job
\* earlier in iteration order reaches that score, and the row carries that
\* score rounded to four decimals.
C11_BestJobFirstSeenWins ==
    WrittenByThisRun(rankedFile) =>
        \A n \in DOMAIN rankedFile.rows :
            LET r == rankedFile.rows[n]
            IN  \E i \in PairsOf(r.applicant_id) :
                    /\ detailed_rows[i].job_id = r.job_id
                    /\ ScoreOf(i) # NaN
                    /\ r.score = Round4(ScoreOf(i))
                    /\ \A k \in PairsOf(r.applicant_id) :
                           \/ ScoreOf(k) = NaN
                           \/ ScoreOf(k) < ScoreOf(i)
                           \/ ScoreOf(k) = ScoreOf(i) /\ i <= k

\* a ranked table is written in which the reported job of a candidate ties
\* with a later job for the maximum
C11_Witness ==
    /\ WrittenByThisRun(rankedFile)
    /\ \E n \in DOMAIN rankedFile.rows :
           \E i, k \in PairsOf(rankedFile.rows[n].applicant_id) :
               /\ i < k
               /\ detailed_rows[i].job_id = rankedFile.rows[n].job_id
               /\ ScoreOf(i) # NaN
               /\ ScoreOf(k) = ScoreOf(i)

\* the rows of a ranked table that belong to an applicant
RankedRowsOf(table, applicant_id) ==
    {n \in DOMAIN table : table[n].applicant_id = applicant_id}

\* C12: when the job table is not empty, the ranked rows a run has built
\* once its loop is over, and the ranked table it writes, hold exactly one
\* row for every candidate of the input.
C12_OneRankedRowPerCandidate ==
    (/\ pc \in {"write_ranked", "write_detailed", "done"}
     /\ Len(jobs.rows) > 0) =>
        /\ \A a \in DOMAIN apps.rows :
               Cardinality(RankedRowsOf(rows, apps.rows[a].id)) = 1
        /\ WrittenByThisRun(rankedFile) =>
               \A a \in DOMAIN apps.rows :
                   Cardinality(RankedRowsOf(rankedFile.rows, apps.rows[a].id)) = 1

\* the rows of a detailed table for one (applicant, job) pair
DetailedRowsOf(table, applicant_id, job_id) ==
    {n \in DOMAIN table :
        table[n].applicant_id = applicant_id /\ table[n].job_id = job_id}

\* C13: the detailed table a completed run has written holds exactly one
\* row for every (candidate, job) pair of the two input tables and nothing
\* else: its length is the product of the two table lengths.
C13_DetailedIsCrossProduct ==
    (pc = "done" /\ WrittenByThisRun(detailedFile)) =>
        /\ Len(detailedFile.rows) = Len(apps.rows) * Len(jobs.rows)
        /\ \A a \in DOMAIN apps.rows : \A j \in DOMAIN jobs.rows :
               Cardinality(DetailedRowsOf(detailedFile.rows, apps.rows[a].id,
                                          jobs.rows[j].id)) = 1

\* a completed run on two candidates and two jobs, whose detailed table
\* has a row for a job that is not the candidate's reported job
C13_Witness ==
    /\ pc = "done"
    /\ WrittenByThisRun(detailedFile)
    /\ Len(apps.rows) = 2
    /\ Len(jobs.rows) = 2
    /\ \E n \in DOMAIN detailedFile.rows : \E m \in DOMAIN rankedFile.rows :
           /\ detailedFile.rows[n].applicant_id = rankedFile.rows[m].applicant_id
           /\ detailedFile.rows[n].job_id # rankedFile.rows[m].job_id

\* the two boosts of the i-th pair of the current run, unrounded
TargetBoostOf(i) ==
    targeting_boost(apps.rows[detailed_rows[i].applicant_id],
                    jobs.rows[detailed_rows[i].job_id])

ClusterBoostOf(i) ==
    ClusterBoost(detailed_rows[i].applicant_nearest_cluster,
                 detailed_rows[i].job_cluster, detailed_rows[i].cluster_distance)

\* C14: the score recorded for every pair is, to four decimals,
\* 0.35 fast + 0.25 interview + 0.30 req + 0.05 sem + 0.05 pay - 0.05 load
\* + targeting boost + cluster boost of the subscores recorded for the
\* pair, whatever its size or sign (NaN when a subscore is NaN).
C14_FinalScoreFormula ==
    \A i \in DOMAIN detailed_rows :
        LET d == detailed_rows[i]
        IN  IF AnyNaN(<<d.fast_reply_score, d.interview_score, d.req_score,
                        d.sem_score, d.pay_score, d.load_penalty>>)
            THEN d.score = NaN
            ELSE d.score # NaN
                 /\ d.score = Round4(35 * d.fast_reply_score
                                     + 25 * d.interview_score
                                     + 30 * d.req_score
                                     + 5 * d.sem_score
                                     + 5 * d.pay_score
                                     - 5 * d.load_penalty
                                     + TargetBoostOf(i) + ClusterBoostOf(i))

\* one run has scored a pair above 1 and a pair below 0
C14_Witness ==
    \E i, k \in DOMAIN detailed_rows :
        /\ detailed_rows[i].score > ONE
        /\ detailed_rows[k].score # NaN
        /\ detailed_rows[k].score < 0

\* the values the two boosts can take, in 1/1000000
TargetBoostValues == {0, 35000, 55000, 70000, 90000, 100000}
ClusterBoostValues == {0, 15000, 35000, 50000}

\* a score is lower than another (a NaN score is neither lower nor higher)
ScoreLower(x, y) == x # NaN /\ y # NaN /\ x < y

SameSubscores(d, e) ==
    /\ d.fast_reply_score = e.fast_reply_score
    /\ d.interview_score = e.interview_score
    /\ d.req_score = e.req_score
    /\ d.sem_score = e.sem_score
    /\ d.pay_score = e.pay_score
    /\ d.load_penalty = e.load_penalty

\* C15: for the base score of the pair scored last (every pair is, when it
\* is scored), the final score under boosts that are no smaller is not
\* lower; and of two pairs of a run with the same six subscores, the one
\* whose two boosts are no smaller has no lower recorded score.
C15_MonotoneInBoosts ==
    /\ baseLog # <<>> =>
           \A t1, t2 \in TargetBoostValues : \A c1, c2 \in ClusterBoostValues :
               (t1 <= t2 /\ c1 <= c2) =>
                   ~ScoreLower(AddScore(baseLog[Len(baseLog)], t2, c2),
                               AddScore(baseLog[Len(baseLog)], t1, c1))
    /\ \A i, k \in DOMAIN detailed_rows :
           (/\ SameSubscores(detailed_rows[i], detailed_rows[k])
            /\ TargetBoostOf(i) <= TargetBoostOf(k)
            /\ ClusterBoostOf(i) <= ClusterBoostOf(k))
           => ~ScoreLower(detailed_rows[k].score, detailed_rows[i].score)

\* two pairs of a run have the same six subscores and the same cluster
\* boost, and the one with the larger targeting boost has the higher score
C15_Witness ==
    \E i, k \in DOMAIN detailed_rows :
        /\ SameSubscores(detailed_rows[i], detailed_rows[k])
        /\ ClusterBoostOf(i) = ClusterBoostOf(k)
        /\ TargetBoostOf(i) < TargetBoostOf(k)
        /\ ScoreLower(detailed_rows[i].score, detailed_rows[k].score)

\* the certification flag of a job as targeting_boost reads it
Certified(job_row) == Truthy(job_row.fast_reply_certified)

\* the applicant names the employer of the job, letter case aside
NamesEmployer(applicant_row, job_row) ==
    /\ IsStr(applicant_row.target_employer)
    /\ applicant_row.target_employer.s # <<>>
    /\ IsStr(job_row.employer_name)
    /\ LowerStr(applicant_row.target_employer.s) = LowerStr(job_row.employer_name.s)

NotSupplied(x) == x.t = "nan" \/ (x.t = "str" /\ Strip(x.s) = <<>>)

NoTargeting(applicant_row) ==
    /\ NotSupplied(applicant_row.target_employer)
    /\ NotSupplied(applicant_row.target_job_title)
    /\ NotSupplied(applicant_row.target_job_city)

\* C17: for a candidate who supplied no targeting field the call never
\* raises (the run does not fail in targeting_boost at that candidate) and
\* every pair of the candidate has a targeting boost of 0.
C17_NoTargetingGivesZero ==
    /\ (/\ pc = "failed"
        /\ history # <<>>
        /\ history[Len(history)].cause = "targeting")
       => ~NoTargeting(apps.rows[ai])
    /\ \A i \in DOMAIN detailed_rows :
           NoTargeting(apps.rows[detailed_rows[i].applicant_id])
               => detailed_rows[i].target_boost = 0

\* C18: every scored pair whose job has no required skills has req_score
\* 1.0, whatever the applicant text and the matching strategy.
C18_NoRequirementsGivesOne ==
    \A i \in DOMAIN detailed_rows :
        JobMustLists[detailed_rows[i].job_id] = <<>>
            => detailed_rows[i].req_score = ONE

\* with the dense backend in use, a candidate with an empty text is scored
\* against a job without required skills
C18_Witness ==
    /\ semStrategy = "dense"
    /\ _USE_ST
    /\ \E i \in DOMAIN detailed_rows :
           /\ AppTexts[detailed_rows[i].applicant_id] = <<>>
           /\ JobMustLists[detailed_rows[i].job_id] = <<>>
           /\ detailed_rows[i].req_score = ONE

\* a required skill is met by a normalised applicant text under a strategy
SkillMet(strategy, at, m) ==
    IF strategy = "dense" THEN DenseSkillCos(at, m) >= FUZZY_THRESHOLD
    ELSE IsSubstr(m, at)

\* C19: every scored pair whose job has required skills has req_score
\* equal to the number of required skills met, under the strategy the call
\* used, over the number of required skills; it lies in [0, 1], and it is 0
\* when the applicant text is empty.
C19_ReqScoreIsCoverageRatio ==
    \A i \in DOMAIN detailed_rows :
        LET at == _norm_text(AppTexts[detailed_rows[i].applicant_id])
            must == JobMustLists[detailed_rows[i].job_id]
            met == Cardinality({n \in DOMAIN must :
                                   SkillMet(strategyLog[i], at, must[n])})
            req == detailed_rows[i].req_score
        IN  must # <<>> =>
                /\ 0 <= req /\ req <= ONE
                /\ at = <<>> => req = 0
                /\ at # <<>> => /\ strategyLog[i] \in {"dense", "substr"}
                                /\ req * Len(must) <= met * ONE
                                /\ met * ONE < (req + 1) * Len(must)

\* one run has scored a candidate with an empty text against required
\* skills, a pair with part of the skills met under the dense strategy and
\* a pair with both of two skills met under substring matching
C19_Witness ==
    \E i, k, l \in DOMAIN detailed_rows :
        /\ JobMustLists[detailed_rows[i].job_id] # <<>>
        /\ AppTexts[detailed_rows[i].applicant_id] = <<>>
        /\ detailed_rows[i].req_score = 0
        /\ strategyLog[k] = "dense"
        /\ detailed_rows[k].req_score > 0
        /\ detailed_rows[k].req_score < ONE
        /\ strategyLog[l] = "substr"
        /\ Len(JobMustLists[detailed_rows[l].job_id]) = 2
        /\ detailed_rows[l].req_score = ONE

\* C20: for a pair whose pay_min and pay_max are numbers, pay_score lies
\* in [0, 1]; with a positive floor it is the midpoint of the pay range over
\* the floor clamped to [0, 1] (1 when the midpoint reaches the floor, 0
\* when it is not positive, the quotient cut to 1/10000 between), and with
\* no floor (a blank cell, zero or a negative number) it is 1.
C20_PayScoreFormula ==
    \A i \in DOMAIN detailed_rows :
        LET lo == jobs.rows[detailed_rows[i].job_id].pay_min
            hi == jobs.rows[detailed_rows[i].job_id].pay_max
            fl == apps.rows[detailed_rows[i].applicant_id].target_pay_min
            p == detailed_rows[i].pay_score
        IN  (lo.t = "num" /\ hi.t = "num" /\ fl.t \in {"num", "nan"}) =>
                /\ 0 <= p /\ p <= ONE
                /\ IF fl.t = "num" /\ fl.v > 0
                   THEN /\ lo.v + hi.v >= 2 * fl.v => p = ONE
                        /\ lo.v + hi.v <= 0 => p = 0
                        /\ (0 < lo.v + hi.v /\ lo.v + hi.v < 2 * fl.v) =>
                               /\ p * 2 * fl.v <= (lo.v + hi.v) * ONE
                               /\ (lo.v + hi.v) * ONE < (p + 1) * 2 * fl.v
                   ELSE p = ONE

\* one run has scored a job paying 28 to 35 for a candidate with floor 25
\* (pay_score 1), for a candidate with a higher floor (pay_score strictly
\* between 0 and 1) and for a candidate with a negative floor (pay_score 1)
C20_Witness ==
    \E i, k, l \in DOMAIN detailed_rows :
        /\ jobs.rows[detailed_rows[i].job_id].pay_min = Num(28)
        /\ jobs.rows[detailed_rows[i].job_id].pay_max = Num(35)
        /\ apps.rows[detailed_rows[i].applicant_id].target_pay_min = Num(25)
        /\ detailed_rows[i].pay_score = ONE
        /\ detailed_rows[k].pay_score = 7875
        /\ apps.rows[detailed_rows[l].applicant_id].target_pay_min = Num(-5)
        /\ detailed_rows[l].pay_score = ONE

\* a numeric cell that is malformed: text that float() rejects, or blank
Malformed(x) == x.t = "str" \/ x.t = "nan"

\* C21: for a pair whose pay_min or pay_max is malformed and whose
\* candidate has a positive floor, pay_score is the neutral 0.5.
C21_MalformedPayGivesHalf ==
    \A i \in DOMAIN detailed_rows :
        LET lo == jobs.rows[detailed_rows[i].job_id].pay_min
            hi == jobs.rows[detailed_rows[i].job_id].pay_max
            fl == apps.rows[detailed_rows[i].applicant_id].target_pay_min
        IN  (/\ Malformed(lo) \/ Malformed(hi)
             /\ fl.t = "num"
             /\ fl.v > 0)
            => detailed_rows[i].pay_score = 5000

\* C22: the fast-reply score of every scored pair is the job's explicit
\* probability clamped to [0, 1] when the cell holds a number; otherwise
\* exp(-h/12) when the median reply hours h are a non-negative number;
\* otherwise (hours blank, unparseable or negative) 0.5.  It is always a
\* number in [0, 1].
C22_FastReplyScoreCases ==
    \A i \in DOMAIN detailed_rows :
        LET prob == jobs.rows[detailed_rows[i].job_id].response_fast_prob
            h == jobs.rows[detailed_rows[i].job_id].response_median_reply_hours
            f == detailed_rows[i].fast_reply_score
        IN  /\ f # NaN
            /\ 0 <= f /\ f <= ONE
            /\ IF prob.t = "num"
               THEN f = MaxInt(0, MinInt(ONE, prob.v))
               ELSE IF h.t = "num" /\ h.v >= 0
                    THEN f = ExpNeg12(h.v)
               ELSE f = 5000

\* application counts to compare a scored job with
LoadValues == {-3, 0, 1, 2, 5, 20, 21, 22, 30, 31, 1000, 1001}

\* two pairs differ at most in the load penalty and the score
SameButLoad(d, e) ==
    /\ d.fast_reply_score = e.fast_reply_score
    /\ d.interview_score = e.interview_score
    /\ d.req_score = e.req_score
    /\ d.sem_score = e.sem_score
    /\ d.pay_score = e.pay_score
    /\ d.target_boost = e.target_boost
    /\ d.cluster_boost = e.cluster_boost

\* C23: the load penalty of every scored pair is never negative and is 0
\* when the application count is 0, negative or not a number; a job with a
\* count no smaller has a penalty no smaller, and with everything else
\* equal a score no higher; the same holds for the base score of the pair
\* recomputed under every larger count.
C23_LoadPenaltyMonotone ==
    /\ \A i \in DOMAIN detailed_rows :
           LET x == jobs.rows[detailed_rows[i].job_id].active_apps_last_24h
               d == detailed_rows[i]
           IN  /\ d.load_penalty # NaN
               /\ d.load_penalty >= 0
               /\ (x.t # "num" \/ x.v <= 0) => d.load_penalty = 0
               /\ x.t = "num" =>
                      \A v \in LoadValues :
                          v >= x.v =>
                              /\ market_load_penalty(Num(v)) >= d.load_penalty
                              /\ ~ScoreLower(baseLog[i],
                                     base_score(d.fast_reply_score,
                                         d.interview_score, d.req_score,
                                         d.sem_score, d.pay_score,
                                         market_load_penalty(Num(v))))
    /\ \A i, k \in DOMAIN detailed_rows :
           LET x == jobs.rows[detailed_rows[i].job_id].active_apps_last_24h
               y == jobs.rows[detailed_rows[k].job_id].active_apps_last_24h
           IN  (x.t = "num" /\ y.t = "num" /\ x.v <= y.v) =>
                   /\ detailed_rows[i].load_penalty <= detailed_rows[k].load_penalty
                   /\ SameButLoad(detailed_rows[i], detailed_rows[k]) =>
                          ~ScoreLower(detailed_rows[i].score, detailed_rows[k].score)

\* one run has scored a job with no applications (penalty 0), the same job
\* with a negative count (penalty 0) and the same job with thirty
\* applications, which has a positive penalty and a lower score
C23_Witness ==
    \E i, k, l \in DOMAIN detailed_rows :
        /\ jobs.rows[detailed_rows[i].job_id].active_apps_last_24h = Num(0)
        /\ detailed_rows[i].load_penalty = 0
        /\ jobs.rows[detailed_rows[l].job_id].active_apps_last_24h = Num(-3)
        /\ detailed_rows[l].load_penalty = 0
        /\ jobs.rows[detailed_rows[k].job_id].active_apps_last_24h = Num(30)
        /\ detailed_rows[k].load_penalty > 0
        /\ SameButLoad(detailed_rows[i], detailed_rows[k])
        /\ ScoreLower(detailed_rows[k].score, detailed_rows[i].score)

MissingInputTable == apps = NoFile \/ jobs = NoFile

\* C24: no step writes an output table while a candidate or job table is
\* missing, and a run started then fails at once, reading its input; a
\* WeightLearner run that finds the detailed table or the outcome table
\* missing returns failure and leaves the WeightSet document as it was.
C24_MissingInputIsFatal ==
    [][ /\ MissingInputTable =>
               /\ rankedFile' = rankedFile
               /\ detailedFile' = detailedFile
               /\ run' # run =>
                      /\ pc' = "failed"
                      /\ history'[Len(history')].cause = "input"
        /\ (detailedFile = NoFile /\ engineVars' = engineVars) =>
               /\ weightsFile' = weightsFile
               /\ lastLearn'.result # "true"
        /\ lastLearn'.path = "missing_input" =>
               /\ weightsFile' = weightsFile
               /\ lastLearn'.result = "false" ]_vars

\* a scoring run has failed on a missing table with no output written, and
\* a WeightLearner run has failed on a missing table with the WeightSet of
\* an earlier run still there
C24_Witness ==
    /\ MissingInputTable
    /\ pc = "failed"
    /\ history # <<>>
    /\ history[Len(history)].cause = "input"
    /\ rankedFile = NoFile
    /\ lastLearn.path = "missing_input"
    /\ lastLearn.result = "false"
    /\ weightsFile.t = "file"

\* C25: a step of the scoring process leaves the WeightSet document as it
\* is, and a step that changes the document is a WeightLearner run that
\* saved: it changes nothing of the scoring process, its two output
\* tables included.
C25_OnlyLearnerWritesWeights ==
    [][ /\ engineVars' # engineVars => weightsFile' = weightsFile
        /\ weightsFile' # weightsFile =>
               /\ engineVars' = engineVars
               /\ lastLearn'.wrote
               /\ weightsFile'.t = "file" ]_vars

\* a process has had a failed and a completed scoring run, the completed
\* one started with a WeightSet persisted, which is still as it was
C25_Witness ==
    /\ pc = "done"
    /\ WrittenByThisRun(rankedFile)
    /\ WrittenByThisRun(detailedFile)
    /\ weightsAtStart.t = "file"
    /\ weightsFile = weightsAtStart
    /\ \E i \in DOMAIN history : history[i].status = "failed"

\* round(sqrt(n)): the whole number nearest to the square root
RoundSqrt(n) ==
    CHOOSE r \in 0..n : (2 * r - 1) * (2 * r - 1) <= 4 * n
                        /\ 4 * n < (2 * r + 1) * (2 * r + 1)

\* C26: when KMeans is called on a batch of n_jobs >= 2 jobs, it is given
\* clamp(round(sqrt(n_jobs)), 2, 20) clusters, and never more clusters than
\* there are jobs.
C26_ClusterCountIsRoundedRoot ==
    (clusters.n_clusters > 0 /\ Len(jobs.rows) >= 2) =>
        /\ clusters.n_clusters
               = MaxInt(2, MinInt(20, RoundSqrt(Len(jobs.rows))))
        /\ clusters.n_clusters <= Len(jobs.rows)

\* C27: the clustering step of a run whose clustering is infeasible or
\* unavailable (fewer than two jobs, no clustering library, or KMeans not
\* carried through) goes on into the loop with zero arrays, and every pair
\* scored after it has a cluster boost of 0.
C27_NoClusteringNoBoost ==
    [][ /\ (/\ pc = "cluster"
            /\ \/ ~_USE_KMEANS
               \/ Len(jobs.rows) < 2
               \/ clusters'.n_clusters = 0) =>
               /\ pc' = "loop"
               /\ clusters'.job_clusters = Zeros(Len(jobs.rows))
               /\ clusters'.nearest = Zeros(Len(apps.rows))
               /\ clusters'.distances = Zeros(Len(apps.rows))
        /\ (pc' # "idle" /\ clusters'.n_clusters = 0) =>
               \A i \in DOMAIN detailed_rows' :
                   detailed_rows'[i].cluster_boost = 0 ]_vars

\* a run in which the clustering call raised on a batch of two or more
\* jobs has completed, every pair with a cluster boost of 0
C27_Witness ==
    /\ pc = "done"
    /\ _USE_KMEANS
    /\ Len(jobs.rows) >= 2
    /\ clusters.n_clusters = 0
    /\ Len(detailed_rows) >= 2
    /\ \A i \in DOMAIN detailed_rows : detailed_rows[i].cluster_boost = 0

\* the similarity of the applicant of a pair to cluster centre c, when
\* KMeans has run
CentreSimOf(i, c) ==
    CentreSim(semStrategy, AppTexts[detailed_rows[i].applicant_id], JobTexts,
              c, clusters.n_clusters)

\* C28: the cluster boost recorded for every pair is min(0.05, 0.05 d) if
\* the job's cluster is the candidate's nearest cluster and 0 otherwise, and
\* the pair's score contains it; when KMeans has run, d is the greatest of
\* the candidate's similarities to the cluster centres and the nearest
\* cluster is a centre that has it.
C28_ClusterBoostFormula ==
    \A i \in DOMAIN detailed_rows :
        LET d == detailed_rows[i]
            claimed == IF d.job_cluster = d.applicant_nearest_cluster
                       THEN MinInt(50000, 5 * d.cluster_distance)
                       ELSE 0
        IN  /\ d.cluster_boost = Round4(claimed)
            /\ baseLog[i] # NaN =>
                   d.score = Round4(baseLog[i] + TargetBoostOf(i) + claimed)
            /\ clusters.n_clusters > 0 =>
                   /\ d.job_cluster = clusters.job_clusters[d.job_id]
                   /\ d.applicant_nearest_cluster \in 0..(clusters.n_clusters - 1)
                   /\ d.cluster_distance
                          = CentreSimOf(i, d.applicant_nearest_cluster)
                   /\ \A c \in 0..(clusters.n_clusters - 1) :
                          CentreSimOf(i, c) <= d.cluster_distance

\* KMeans has run, a job of the candidate's nearest cluster has a positive
\* boost and a job of another cluster has none
C28_Witness ==
    /\ clusters.n_clusters > 0
    /\ \E i, k \in DOMAIN detailed_rows :
           /\ detailed_rows[i].applicant_id = detailed_rows[k].applicant_id
           /\ detailed_rows[i].job_cluster = detailed_rows[i].applicant_nearest_cluster
           /\ detailed_rows[i].cluster_distance > 0
           /\ detailed_rows[i].cluster_boost > 0
           /\ detailed_rows[k].job_cluster # detailed_rows[k].applicant_nearest_cluster
           /\ detailed_rows[k].cluster_boost = 0

\* ten times 0.8 req + 0.2 sem of a detailed row, before any clamping
ProxySum(d) == 8 * d.req_score + 2 * d.sem_score

\* C29: the interview proxy recorded for every pair, and used in its base
\* score, is 0.8 req_score + 0.2 sem_score clamped to [0, 1]: it is the sum
\* itself when the sum is in [0, 1], 0 when the sum is negative and 1 when
\* it is above 1.
C29_InterviewProxyClamped ==
    \A i \in DOMAIN detailed_rows :
        LET d == detailed_rows[i]
        IN  /\ d.req_score \in 0..ONE
            /\ d.sem_score \in (0 - ONE)..ONE
            /\ d.interview_score =
                   IF ProxySum(d) < 0 THEN 0
                   ELSE IF ProxySum(d) > 10 * ONE THEN ONE
                   ELSE ProxySum(d) \div 10
            /\ baseLog[i] = base_score(d.fast_reply_score, d.interview_score,
                                       d.req_score, d.sem_score, d.pay_score,
                                       d.load_penalty)

\* one pair has no requirement met and a negative similarity, so that the
\* sum is negative and the proxy is 0; another has a proxy that is the sum
C29_Witness ==
    \E i, k \in DOMAIN detailed_rows :
        /\ detailed_rows[i].req_score = 0
        /\ detailed_rows[i].sem_score < 0
        /\ detailed_rows[i].interview_score = 0
        /\ detailed_rows[k].sem_score > 0
        /\ detailed_rows[k].interview_score > 0
        /\ detailed_rows[k].interview_score < ONE
        /\ detailed_rows[k].interview_score * 10 = ProxySum(detailed_rows[k])

\* C29, as the specification states it: the interview proxy is
\* 0.8 req_score + 0.2 sem_score for every similarity in [-1, 1].
C29_InterviewProxyUnclamped ==
    \A i \in DOMAIN detailed_rows :
        detailed_rows[i].interview_score = ProxySum(detailed_rows[i]) \div 10

\* C30: in every row of the detailed table the cluster boost is in
\* [0, 0.05], also for a candidate whose similarity to every cluster centre
\* is negative.
C30_ClusterBoostInRange ==
    \A i \in DOMAIN detailed_rows :
        /\ detailed_rows[i].cluster_boost >= 0
        /\ detailed_rows[i].cluster_boost <= 500

====
